---- MODULE Spec2Model ----
(***************************************************************************)
(* Model of ros/src/waypoint_updater/waypoint_updater.py: the periodic     *)
(* loop() of WaypointUpdater and its subscriber callbacks.                 *)
(*                                                                         *)
(* Numbers.  Positions are integer triples <<x, y, z>>; the inputs are     *)
(* chosen so that every distance the code takes is a whole number, so      *)
(* math.sqrt in distance() is exact.  A target speed (twist.twist.linear.x)*)
(* is stored as its SQUARE: speeds are >= 0, squaring keeps their order,   *)
(* and vel = sqrt(2*a*d) becomes vel^2 = 2*a*d with no rounding.  The      *)
(* 2.5 of STOP_BUFFER is kept as STOP_BUFFER_X2 = 5 and inequalities are   *)
(* multiplied through.  Lists are functions on 0..n-1 as in Python.        *)
(***************************************************************************)
EXTENDS Integers, FiniteSets, Sequences, TLC

\* ---- program constants ----
LOOKAHEAD_WPS == 100
MAX_DECEL == 4
STOP_BUFFER_X2 == 5
decel == 1
accel == 1
Inf == -1

\* ---- bounds of the model ----
MaxRouteLen == 5
MaxVelK == 2
MaxLocLen == 3

VARIABLES
  base_waypoints,       \* self.base_waypoints.waypoints: 0..n-1 -> [pose, twist]
  has_base_waypoints,   \* hasattr(self, 'base_waypoints')
  current_pose,         \* self.current_pose (position), <<>> before the first message
  has_current_pose,     \* hasattr(self, 'current_pose')
  current_velocity,     \* self.current_velocity
  traffic_waypoint,     \* self.traffic_waypoint
  braking,              \* self.braking
  last_starting_point,  \* self.last_starting_point, None until set
  running,              \* the while loop of __init__ is still running
  step,                 \* the handler that ran last: "init", "callback", "loop"
  pub,                  \* the last step called final_waypoints_pub.publish
  lane,                 \* lane.waypoints published by the last step
  next_wp,              \* loop's local next_wp in the last step (-1: not computed)
  shaper,               \* the pass get_final_waypoints applied in the last step
  cycle,                \* locals of a cycle that is run in separate steps
  too_close_cycle       \* history: a cycle that took the elif of line 74

vars == <<base_waypoints, has_base_waypoints, current_pose, has_current_pose,
          current_velocity, traffic_waypoint, braking, last_starting_point,
          running, step, pub, lane, next_wp, shaper, cycle, too_close_cycle>>

None == <<>>

Max(a, b) == IF a > b THEN a ELSE b
Min(a, b) == IF a < b THEN a ELSE b

len(w) == Cardinality(DOMAIN w)

\* ---- inputs ----
\* Squared nominal speed of the route point at index i (11 m/s, and 4 m/s
\* at every third point).
NominalSq(i) == IF i % 3 = 2 THEN 16 ELSE 121

\* Position number k on the track axis, 10 units apart.
TrackPoint(k) == <<10 * k, 0, 0>>

\* A route of n points 10 units apart on a line.
Route(n) == [i \in 0..(n - 1) |-> [pose |-> TrackPoint(i), twist |-> NominalSq(i)]]

RouteLens == 0..MaxRouteLen
PoseMsgs == {TrackPoint(k) : k \in (-1)..(MaxRouteLen - 1)}
VelocityMsgs == {5 * k : k \in 0..MaxVelK}
StopMsgs == (-2)..MaxRouteLen

\* ---- math.sqrt on perfect squares ----
RECURSIVE SqrtIter(_, _)
SqrtIter(n, r) ==
  IF r * r <= n /\ (r + 1) * (r + 1) > n THEN r
  ELSE SqrtIter(n, (r + (n \div r)) \div 2)

Sqrt(n) == IF n = 0 THEN 0 ELSE SqrtIter(n, n)

distance(p1, p2) ==
  LET x == p1[1] - p2[1]
      y == p1[2] - p2[2]
      z == p1[3] - p2[3]
  IN Sqrt(x * x + y * y + z * z)

\* Mutant: "dist <= closest_dist", which keeps the last of several closest
\* points.
RECURSIVE closest_scan_last_tie(_, _, _, _, _)
closest_scan_last_tie(pose, waypoints, i, closest_dist, closest_wp) ==
  IF i >= len(waypoints) THEN closest_wp
  ELSE LET dist == distance(pose, waypoints[i].pose)
       IN IF closest_dist = Inf \/ dist <= closest_dist
          THEN closest_scan_last_tie(pose, waypoints, i + 1, dist, i)
          ELSE closest_scan_last_tie(pose, waypoints, i + 1, closest_dist, closest_wp)

\* ---- localizer ----
RECURSIVE closest_scan(_, _, _, _, _)
closest_scan(pose, waypoints, i, closest_dist, closest_wp) ==
  IF i >= len(waypoints) THEN closest_wp
  ELSE LET dist == distance(pose, waypoints[i].pose)
       IN IF closest_dist = Inf \/ dist < closest_dist
          THEN closest_scan(pose, waypoints, i + 1, dist, i)
          ELSE closest_scan(pose, waypoints, i + 1, closest_dist, closest_wp)

get_closest_waypoint(pose, waypoints) == closest_scan(pose, waypoints, 0, Inf, 0)

\* Mutant: the projection test written "> 0".
get_next_waypoint_strict(pose, waypoints) ==
  LET closest_wp == get_closest_waypoint(pose, waypoints)
      closest_wp_next == (closest_wp + 1) % len(waypoints)
      wp0_x == waypoints[closest_wp].pose[1]
      wp0_y == waypoints[closest_wp].pose[2]
      wp1_x == waypoints[closest_wp_next].pose[1]
      wp1_y == waypoints[closest_wp_next].pose[2]
      x == pose[1]
      y == pose[2]
  IN IF (y - wp0_y) * (wp1_y - wp0_y) + (x - wp0_x) * (wp1_x - wp0_x) > 0
     THEN closest_wp_next
     ELSE closest_wp

\* Needs len(waypoints) > 0: with an empty list the % raises ZeroDivisionError.
get_next_waypoint(pose, waypoints) ==
  LET closest_wp == get_closest_waypoint(pose, waypoints)
      closest_wp_next == (closest_wp + 1) % len(waypoints)
      wp0_x == waypoints[closest_wp].pose[1]
      wp0_y == waypoints[closest_wp].pose[2]
      wp1_x == waypoints[closest_wp_next].pose[1]
      wp1_y == waypoints[closest_wp_next].pose[2]
      x == pose[1]
      y == pose[2]
  IN IF (y - wp0_y) * (wp1_y - wp0_y) + (x - wp0_x) * (wp1_x - wp0_x) >= 0
     THEN closest_wp_next
     ELSE closest_wp

\* Mutant: range(start_wp, end_wp) instead of range(start_wp, end_wp + 1).
copy_waypoints_exclusive(waypoints, start_wp, end_wp) ==
  LET n == len(waypoints)
      end == IF end_wp < start_wp THEN end_wp + n ELSE end_wp
  IN [k \in 0..(end - start_wp - 1) |->
        LET index == (start_wp + k) % n
        IN [pose |-> waypoints[index].pose, twist |-> waypoints[index].twist]]

\* Mutant: the wraparound test written end_wp <= start_wp.
copy_waypoints_wrap_equal(waypoints, start_wp, end_wp) ==
  LET n == len(waypoints)
      end == IF end_wp <= start_wp THEN end_wp + n ELSE end_wp
  IN [k \in 0..(end - start_wp) |->
        LET index == (start_wp + k) % n
        IN [pose |-> waypoints[index].pose, twist |-> waypoints[index].twist]]

\* ---- window extraction: lines 89-99 of get_final_waypoints ----
\* range(start_wp, end_wp + 1) is empty when end_wp < start_wp still holds
\* after the adjustment.
copy_waypoints(waypoints, start_wp, end_wp) ==
  LET n == len(waypoints)
      end == IF end_wp < start_wp THEN end_wp + n ELSE end_wp
  IN [k \in 0..(end - start_wp) |->
        LET index == (start_wp + k) % n
        IN [pose |-> waypoints[index].pose, twist |-> waypoints[index].twist]]

\* Mutant: the origin is taken anew in every Accelerate pass.
accelerate_start_always(velocity, pose, start_point) == pose

\* ---- velocity shaping ----
\* Lines 111-112: the origin of the ramp.  current_velocity is a whole
\* number here, so "<= 0.0001" is "<= 0".
accelerate_start(velocity, pose, start_point) ==
  IF velocity <= 0 THEN pose ELSE start_point

\* Line 117 for window point i: vel^2 = 2 * accel * dist.
ramp_speed2(waypoints, i, start_point) ==
  2 * accel * distance(start_point, waypoints[i].pose)

\* Lines 115-121: the index at which the for loop breaks, len(waypoints)
\* when it runs to the end.
ramp_break(waypoints, start_point) ==
  LET holds == {i \in DOMAIN waypoints :
                  ~(waypoints[i].twist > ramp_speed2(waypoints, i, start_point))}
  IN IF holds = {} THEN len(waypoints)
     ELSE CHOOSE i \in holds : \A j \in holds : i <= j

\* Mutant: the ramp speed is assigned to every point, without the test
\* against the point's own speed.
accelerate_unclamped(waypoints, start_point) ==
  IF start_point = None THEN waypoints
  ELSE [i \in DOMAIN waypoints |->
          [waypoints[i] EXCEPT !.twist = ramp_speed2(waypoints, i, start_point)]]

\* Lines 113-122: the points before the break get the ramp speed.
accelerate(waypoints, start_point) ==
  IF start_point = None THEN waypoints
  ELSE LET stop == ramp_break(waypoints, start_point)
       IN [i \in DOMAIN waypoints |->
             IF i < stop
             THEN [waypoints[i] EXCEPT !.twist = ramp_speed2(waypoints, i, start_point)]
             ELSE waypoints[i]]

\* Mutant: the ramp speed replaces the point's speed, without the min.
decelerate_unclamped(waypoints) ==
  LET n == len(waypoints)
      last == waypoints[n - 1]
      zeroed == [waypoints EXCEPT ![n - 1].twist = 0]
  IN [i \in DOMAIN waypoints |->
        LET dist == distance(zeroed[i].pose, last.pose)
            dist2 == Max(0, 2 * dist - STOP_BUFFER_X2)
            vel2 == decel * dist2
        IN [zeroed[i] EXCEPT !.twist = vel2]]

\* Mutant: the stop buffer is taken off the speed, not off the distance.
decelerate_buffer_on_speed(waypoints) ==
  LET n == len(waypoints)
      last == waypoints[n - 1]
      zeroed == [waypoints EXCEPT ![n - 1].twist = 0]
  IN [i \in DOMAIN waypoints |->
        LET dist == distance(zeroed[i].pose, last.pose)
            vel2 == 2 * decel * dist
        IN [zeroed[i] EXCEPT
              !.twist = Max(0, Min(vel2, zeroed[i].twist) - STOP_BUFFER_X2)]]

\* Needs len(waypoints) > 0: waypoints[-1] of an empty list raises IndexError.
decelerate(waypoints) ==
  LET n == len(waypoints)
      last == waypoints[n - 1]
      zeroed == [waypoints EXCEPT ![n - 1].twist = 0]
  IN [i \in DOMAIN waypoints |->
        LET dist == distance(zeroed[i].pose, last.pose)
            dist2 == Max(0, 2 * dist - STOP_BUFFER_X2)
            vel2 == decel * dist2
        IN [zeroed[i] EXCEPT !.twist = Min(vel2, zeroed[i].twist)]]

\* Lines 102-106: the pass chosen by self.braking.
get_final_waypoints(waypoints, start_wp, end_wp, brk, start_point) ==
  LET final_waypoints == copy_waypoints(waypoints, start_wp, end_wp)
  IN IF brk THEN decelerate(final_waypoints)
     ELSE accelerate(final_waypoints, start_point)

\* Mutant: STOP_BUFFER left out of min_stopping_dist.
too_close_no_buffer(tl_dist, velocity) ==
  2 * (2 * MAX_DECEL) * tl_dist < 2 * velocity * velocity

\* Mutant: the comparison of line 74 reversed.
too_close_reversed(tl_dist, velocity) ==
  2 * (2 * MAX_DECEL) * tl_dist
     > 2 * velocity * velocity + (2 * MAX_DECEL) * STOP_BUFFER_X2

\* ---- mode decision ----
\* Line 59 against line 56: tl_dist < v^2 / (2.0 * MAX_DECEL) + STOP_BUFFER,
\* both sides times 2 * (2 * MAX_DECEL).
too_close(tl_dist, velocity) ==
  2 * (2 * MAX_DECEL) * tl_dist
     < 2 * velocity * velocity + (2 * MAX_DECEL) * STOP_BUFFER_X2

\* Mutant: "too close" sends the cycle to the cruise branch whatever the
\* mode is, so that a braking vehicle goes back to cruising.
loop_branch_no_hysteresis(traffic_wp, brk, tl_dist, velocity) ==
  IF traffic_wp = -1 \/ too_close(tl_dist, velocity) THEN 1
  ELSE 3

\* The branch of the if/elif/else at lines 62, 74, 79.
loop_branch(traffic_wp, brk, tl_dist, velocity) ==
  IF traffic_wp = -1 THEN 1
  ELSE IF ~brk /\ too_close(tl_dist, velocity) THEN 2
  ELSE 3

\* self.braking after the branch: lines 64 and 81; branch 2 leaves it.
braking_after(branch, brk) ==
  IF branch = 1 THEN FALSE
  ELSE IF branch = 2 THEN brk
  ELSE TRUE

\* wpts[traffic_wp]: a Python list accepts -len..len-1.
can_index(waypoints, i) == -len(waypoints) <= i /\ i <= len(waypoints) - 1

py_index(waypoints, i) == IF i < 0 THEN i + len(waypoints) ELSE i

\* Mutant: the window holds the route's own twist objects (no deepcopy), so
\* the speeds written by the shaping pass land in the stored route.
route_after_shaping_aliased(waypoints, start_wp, final_waypoints) ==
  [i \in DOMAIN waypoints |->
     LET ks == {k \in DOMAIN final_waypoints : (start_wp + k) % len(waypoints) = i}
     IN IF ks = {} THEN waypoints[i]
        ELSE LET k == CHOOSE m \in ks : \A j \in ks : j <= m
             IN [waypoints[i] EXCEPT !.twist = final_waypoints[k].twist]]

\* Lines 96-97: pose and twist of a window point are deep copies, so the
\* writes of accelerate and decelerate (lines 119, 128, 133) reach no object
\* of the stored route.
route_after_shaping(waypoints, start_wp, final_waypoints) == waypoints

\* No cycle is under way.
idle_cycle == [pc |-> "idle"]

\* No cycle that took the elif of line 74 is on record.
no_too_close_cycle == [traffic_wp |-> -1, tl_dist |-> 0, velocity |-> 0]

\* ---- the handlers ----
Init ==
  /\ base_waypoints = <<>>
  /\ has_base_waypoints = FALSE
  /\ current_pose = None
  /\ has_current_pose = FALSE
  /\ current_velocity = 0
  /\ traffic_waypoint = -1
  /\ braking = FALSE
  /\ last_starting_point = None
  /\ running = TRUE
  /\ step = "init"
  /\ pub = FALSE
  /\ lane = <<>>
  /\ next_wp = -1
  /\ shaper = "none"
  /\ cycle = idle_cycle
  /\ too_close_cycle = no_too_close_cycle

\* What a step that is not a publishing cycle leaves in the output record.
no_output ==
  /\ pub' = FALSE
  /\ lane' = <<>>
  /\ shaper' = "none"

\* An exception leaves loop() and __init__: the process ends.
raise == running' = FALSE /\ no_output

\* One whole cycle, lines 43-83 with the calls they make.
loop_once ==
  /\ running
  /\ step' = "loop"
  /\ UNCHANGED <<has_base_waypoints, current_pose,
                 has_current_pose, current_velocity, traffic_waypoint>>
  /\ IF ~(has_base_waypoints /\ has_current_pose)
     THEN /\ no_output
          /\ next_wp' = -1
          /\ UNCHANGED <<base_waypoints, braking, last_starting_point, running>>
     ELSE LET pose == current_pose
              wpts == base_waypoints
              traffic_wp == traffic_waypoint
          IN IF len(wpts) = 0
             THEN \* line 178: (closest_wp + 1) % 0
                  /\ raise
                  /\ next_wp' = -1
                  /\ UNCHANGED <<base_waypoints, braking, last_starting_point>>
             ELSE IF ~can_index(wpts, traffic_wp)
             THEN \* line 56: wpts[traffic_wp]
                  /\ raise
                  /\ next_wp' = get_next_waypoint(pose, wpts)
                  /\ UNCHANGED <<base_waypoints, braking, last_starting_point>>
             ELSE LET nwp == get_next_waypoint(pose, wpts)
                      tl_dist == distance(pose, wpts[py_index(wpts, traffic_wp)].pose)
                      branch == loop_branch(traffic_wp, braking, tl_dist, current_velocity)
                      brk == braking_after(branch, braking)
                      end_wp == IF branch = 3 THEN traffic_wp ELSE nwp + LOOKAHEAD_WPS
                      start_point == IF brk THEN last_starting_point
                                     ELSE accelerate_start(current_velocity, current_pose,
                                                           last_starting_point)
                  IN /\ next_wp' = nwp
                     /\ braking' = brk
                     /\ last_starting_point' = start_point
                     /\ IF brk /\ len(copy_waypoints(wpts, nwp, end_wp)) = 0
                        THEN \* line 127: waypoints[-1] of an empty list
                             /\ raise
                             /\ UNCHANGED base_waypoints
                        ELSE /\ lane' = get_final_waypoints(wpts, nwp, end_wp, brk, start_point)
                             /\ base_waypoints' = route_after_shaping(wpts, nwp, lane')
                             /\ shaper' = IF brk THEN "decelerate" ELSE "accelerate"
                             /\ pub' = TRUE
                             /\ UNCHANGED running

loop == loop_once /\ UNCHANGED <<cycle, too_close_cycle>>

callback_output ==
  /\ step' = "callback"
  /\ no_output
  /\ next_wp' = -1
  /\ UNCHANGED <<cycle, too_close_cycle>>

current_pose_cb ==
  /\ running
  /\ \E msg \in PoseMsgs : current_pose' = msg
  /\ has_current_pose' = TRUE
  /\ callback_output
  /\ UNCHANGED <<base_waypoints, has_base_waypoints, current_velocity,
                 traffic_waypoint, braking, last_starting_point, running>>

base_waypoints_cb ==
  /\ running
  /\ \E n \in RouteLens : base_waypoints' = Route(n)
  /\ has_base_waypoints' = TRUE
  /\ callback_output
  /\ UNCHANGED <<current_pose, has_current_pose, current_velocity,
                 traffic_waypoint, braking, last_starting_point, running>>

traffic_waypoint_cb ==
  /\ running
  /\ \E data \in StopMsgs : traffic_waypoint' = data
  /\ callback_output
  /\ UNCHANGED <<base_waypoints, has_base_waypoints, current_pose,
                 has_current_pose, current_velocity, braking,
                 last_starting_point, running>>

current_velocity_cb ==
  /\ running
  /\ \E x \in VelocityMsgs : current_velocity' = x
  /\ callback_output
  /\ UNCHANGED <<base_waypoints, has_base_waypoints, current_pose,
                 has_current_pose, traffic_waypoint, braking,
                 last_starting_point, running>>

Next ==
  \/ loop
  \/ current_pose_cb
  \/ base_waypoints_cb
  \/ traffic_waypoint_cb
  \/ current_velocity_cb

Spec == Init /\ [][Next]_vars

\* ---- stop signals that are valid when they are sent ----
\* traffic_waypoint_cb with a message that is -1 or an index of the route
\* stored at that moment.
traffic_waypoint_valid_cb ==
  /\ running
  /\ \E data \in StopMsgs :
        /\ data = -1 \/ (has_base_waypoints /\ data \in 0..(len(base_waypoints) - 1))
        /\ traffic_waypoint' = data
  /\ callback_output
  /\ UNCHANGED <<base_waypoints, has_base_waypoints, current_pose,
                 has_current_pose, current_velocity, braking,
                 last_starting_point, running>>

NextValidStops ==
  \/ loop
  \/ current_pose_cb
  \/ base_waypoints_cb
  \/ traffic_waypoint_valid_cb
  \/ current_velocity_cb

SpecValidStops == Init /\ [][NextValidStops]_vars

\* ---- cycles under one standing stop signal ----
\* A route is loaded, a pose is known and a stop index of the route is set;
\* only pose and velocity change from then on.
InitLatched ==
  /\ base_waypoints = Route(MaxRouteLen)
  /\ has_base_waypoints = TRUE
  /\ current_pose \in PoseMsgs
  /\ has_current_pose = TRUE
  /\ current_velocity = 0
  /\ traffic_waypoint \in 0..(MaxRouteLen - 1)
  /\ braking = FALSE
  /\ last_starting_point = None
  /\ running = TRUE
  /\ step = "init"
  /\ pub = FALSE
  /\ lane = <<>>
  /\ next_wp = -1
  /\ shaper = "none"
  /\ cycle = idle_cycle
  /\ too_close_cycle = no_too_close_cycle

\* loop(), with the history of a cycle that took the elif of line 74: such
\* a cycle may be put on record, with the tl_dist and velocity it used.
loop_latched ==
  /\ loop_once
  /\ UNCHANGED cycle
  /\ IF pub' /\ ~braking' /\ traffic_waypoint # -1
     THEN too_close_cycle' \in
            {too_close_cycle,
             [traffic_wp |-> traffic_waypoint,
              tl_dist |-> distance(current_pose,
                                   base_waypoints[py_index(base_waypoints,
                                                           traffic_waypoint)].pose),
              velocity |-> current_velocity]}
     ELSE UNCHANGED too_close_cycle

NextLatched ==
  \/ loop_latched
  \/ current_pose_cb
  \/ current_velocity_cb

SpecLatched == InitLatched /\ [][NextLatched]_vars

\* ---- one cycle in two steps, callbacks of other threads in between ----
\* rospy runs the subscriber callbacks in threads of their own, so a pose or
\* velocity message can be stored between any two reads of loop().
InitThreads ==
  /\ base_waypoints = Route(MaxRouteLen)
  /\ has_base_waypoints = TRUE
  /\ current_pose \in PoseMsgs
  /\ has_current_pose = TRUE
  /\ current_velocity \in VelocityMsgs
  /\ traffic_waypoint \in (-1)..(MaxRouteLen - 1)
  /\ braking = FALSE
  /\ last_starting_point = None
  /\ running = TRUE
  /\ step = "init"
  /\ pub = FALSE
  /\ lane = <<>>
  /\ next_wp = -1
  /\ shaper = "none"
  /\ cycle = idle_cycle
  /\ too_close_cycle = no_too_close_cycle

\* Lines 44-59: the reads of self.current_pose (49), the route (50),
\* self.traffic_waypoint (53) and self.current_velocity (59), kept in the
\* locals of the cycle.
loop_snapshot ==
  /\ running
  /\ cycle.pc = "idle"
  /\ has_base_waypoints /\ has_current_pose
  /\ len(base_waypoints) > 0
  /\ can_index(base_waypoints, traffic_waypoint)
  /\ LET pose == current_pose
         wpts == base_waypoints
         traffic_wp == traffic_waypoint
     IN cycle' = [pc |-> "shape",
                  pose |-> pose,
                  next_wp |-> get_next_waypoint(pose, wpts),
                  traffic_wp |-> traffic_wp,
                  tl_dist |-> distance(pose, wpts[py_index(wpts, traffic_wp)].pose),
                  velocity |-> current_velocity]
  /\ step' = "snapshot"
  /\ no_output
  /\ next_wp' = cycle'.next_wp
  /\ UNCHANGED <<base_waypoints, has_base_waypoints, current_pose,
                 has_current_pose, current_velocity, traffic_waypoint,
                 braking, last_starting_point, running, too_close_cycle>>

\* Lines 62-83 with get_final_waypoints: the branches are taken on the
\* locals of the cycle, while accelerate reads self.current_velocity
\* (line 111) and self.current_pose (line 112) again.  What accelerate read
\* is left in the cycle record.
loop_shape ==
  /\ running
  /\ cycle.pc = "shape"
  /\ LET wpts == base_waypoints
         nwp == cycle.next_wp
         traffic_wp == cycle.traffic_wp
         branch == loop_branch(traffic_wp, braking, cycle.tl_dist, cycle.velocity)
         brk == braking_after(branch, braking)
         end_wp == IF branch = 3 THEN traffic_wp ELSE nwp + LOOKAHEAD_WPS
         start_point == IF brk THEN last_starting_point
                        ELSE accelerate_start(current_velocity, current_pose,
                                              last_starting_point)
     IN /\ next_wp' = nwp
        /\ braking' = brk
        /\ last_starting_point' = start_point
        /\ cycle' = IF brk THEN idle_cycle
                    ELSE [pc |-> "idle",
                          acc_velocity |-> current_velocity,
                          acc_pose |-> current_pose]
        /\ IF brk /\ len(copy_waypoints(wpts, nwp, end_wp)) = 0
           THEN /\ raise
                /\ UNCHANGED base_waypoints
           ELSE /\ lane' = get_final_waypoints(wpts, nwp, end_wp, brk, start_point)
                /\ base_waypoints' = route_after_shaping(wpts, nwp, lane')
                /\ shaper' = IF brk THEN "decelerate" ELSE "accelerate"
                /\ pub' = TRUE
                /\ UNCHANGED running
  /\ step' = "loop"
  /\ UNCHANGED <<has_base_waypoints, current_pose, has_current_pose,
                 current_velocity, traffic_waypoint, too_close_cycle>>

NextThreads ==
  \/ loop_snapshot
  \/ loop_shape
  \/ current_pose_cb
  \/ current_velocity_cb

SpecThreads == InitThreads /\ [][NextThreads]_vars

\* ---- the localizer on its own ----
\* Corners and centre of a 6 x 8 rectangle, and the point 12 above the
\* centre: every distance between two of them is a whole number (5, 6, 8,
\* 10, 12, 13).
LocPoints == {<<0, 0, 0>>, <<6, 0, 0>>, <<6, 8, 0>>, <<0, 8, 0>>, <<3, 4, 0>>,
              <<3, 4, 12>>}
LocPoses == LocPoints
LocRoutes ==
  UNION {{[i \in 0..(n - 1) |-> [pose |-> f[i], twist |-> NominalSq(i)]] :
             f \in [0..(n - 1) -> LocPoints]} : n \in 1..MaxLocLen}

InitLocalizer ==
  /\ base_waypoints \in LocRoutes
  /\ has_base_waypoints = TRUE
  /\ current_pose \in LocPoses
  /\ has_current_pose = TRUE
  /\ current_velocity = 0
  /\ traffic_waypoint = -1
  /\ braking = FALSE
  /\ last_starting_point = None
  /\ running = TRUE
  /\ step = "init"
  /\ pub = FALSE
  /\ lane = <<>>
  /\ next_wp = -1
  /\ shaper = "none"
  /\ cycle = idle_cycle
  /\ too_close_cycle = no_too_close_cycle

\* Line 177: the call of get_closest_waypoint.
closest_waypoint_call ==
  /\ cycle.pc = "idle"
  /\ cycle' = [pc |-> "closest",
               closest_wp |-> get_closest_waypoint(current_pose, base_waypoints)]
  /\ step' = "localize"
  /\ UNCHANGED <<base_waypoints, has_base_waypoints, current_pose,
                 has_current_pose, current_velocity, traffic_waypoint, braking,
                 last_starting_point, running, pub, lane, next_wp, shaper,
                 too_close_cycle>>

\* Line 52: the call of get_next_waypoint.
next_waypoint_call ==
  /\ cycle.pc = "closest"
  /\ cycle' = [cycle EXCEPT !.pc = "next"]
  /\ next_wp' = get_next_waypoint(current_pose, base_waypoints)
  /\ step' = "localize"
  /\ UNCHANGED <<base_waypoints, has_base_waypoints, current_pose,
                 has_current_pose, current_velocity, traffic_waypoint, braking,
                 last_starting_point, running, pub, lane, shaper,
                 too_close_cycle>>

NextLocalizer ==
  \/ closest_waypoint_call
  \/ next_waypoint_call

SpecLocalizer == InitLocalizer /\ [][NextLocalizer]_vars

\* ---- vocabulary of the properties ----
RouteLen == len(base_waypoints)

\* The last step was a cycle that published a window.
Published == step = "loop" /\ pub

\* The stop signal names a point of the loaded route.
StopIndexValid == traffic_waypoint \in 0..(RouteLen - 1)

\* Squared nominal speed of the route point at position p.
NominalAt(p) ==
  base_waypoints[CHOOSE i \in DOMAIN base_waypoints : base_waypoints[i].pose = p].twist

\* Window point k is a copy of the route point (next_wp + k) mod N.
FollowsRoute(w, k) == w[k].pose = base_waypoints[(next_wp + k) % RouteLen].pose

\* stop_distance < v^2 / (2 * MAX_DECEL) + STOP_BUFFER, times 8.
BelowMinStoppingDistance(stop_distance, v) == 8 * stop_distance < v * v + 20

\* C1: the mode leaves BRAKING only in a cycle whose stop signal is -1, and
\* a cycle that starts in BRAKING with an active stop signal ends in BRAKING.
C1_BrakingLeftOnlyOnNone ==
  [][ /\ (braking /\ ~braking') => (step' = "loop" /\ traffic_waypoint = -1)
      /\ (step' = "loop" /\ braking /\ traffic_waypoint # -1) => braking' ]_vars

\* A braking cycle that published although the stop point is nearer than
\* the minimum stopping distance: the cycle started in BRAKING.
C1_Witness ==
  /\ Published /\ braking /\ StopIndexValid
  /\ BelowMinStoppingDistance(
       distance(current_pose, base_waypoints[traffic_waypoint].pose),
       current_velocity)

\* C2: a window published by a cycle that ends in BRAKING has speed 0 at its
\* last point and no speed above the nominal speed of its route point.
C2_BrakingWindowStops ==
  (Published /\ braking) =>
     /\ lane[len(lane) - 1].twist = 0
     /\ \A k \in DOMAIN lane : lane[k].twist <= NominalAt(lane[k].pose)

\* A braking window of three points or more where the ramp binds at one
\* point and the nominal speed at another.
C2_Witness ==
  /\ Published /\ braking /\ len(lane) >= 3
  /\ \E k \in DOMAIN lane : 0 < lane[k].twist /\ lane[k].twist < NominalAt(lane[k].pose)
  /\ \E k \in DOMAIN lane : 0 < lane[k].twist /\ lane[k].twist = NominalAt(lane[k].pose)

\* C3: with nominal speeds >= 0, every speed of every published window is
\* between 0 and the nominal speed of its route point.
C3_SpeedsWithinNominal ==
  (Published /\ \A i \in DOMAIN base_waypoints : base_waypoints[i].twist >= 0) =>
     \A k \in DOMAIN lane :
        0 <= lane[k].twist /\ lane[k].twist <= NominalAt(lane[k].pose)

\* An Accelerate window with a point slowed down by the ramp and a point
\* left at its nominal speed although the ramp speed there is higher.
C3_Witness ==
  /\ Published /\ shaper = "accelerate" /\ last_starting_point # None
  /\ \E k \in DOMAIN lane : lane[k].twist < NominalAt(lane[k].pose)
  /\ \E k \in DOMAIN lane :
        /\ lane[k].twist = NominalAt(lane[k].pose)
        /\ 2 * accel * distance(last_starting_point, lane[k].pose) > lane[k].twist

\* C4: a cycle with stop signal -1 (on a route of two points or more) ends
\* in CRUISE and publishes exactly LOOKAHEAD_WPS points, the route points
\* next_wp, next_wp + 1, ... taken modulo the route length, shaped by
\* Accelerate.
C4_CruiseWindowHalfOpen ==
  (Published /\ traffic_waypoint = -1 /\ RouteLen >= 2) =>
     /\ ~braking
     /\ shaper = "accelerate"
     /\ len(lane) = LOOKAHEAD_WPS
     /\ \A k \in DOMAIN lane : FollowsRoute(lane, k)

\* C5: with 0 <= end < start < N the extraction has (end + N - start) mod N + 1
\* points, point k is route point (start + k) mod N, and the last one is end.
C5_WrappedExtraction ==
  (/\ Published /\ shaper = "decelerate" /\ RouteLen >= 2
   /\ 0 <= traffic_waypoint /\ traffic_waypoint < next_wp /\ next_wp < RouteLen) =>
     /\ len(lane) = ((traffic_waypoint + RouteLen - next_wp) % RouteLen) + 1
     /\ \A k \in DOMAIN lane : FollowsRoute(lane, k)
     /\ lane[len(lane) - 1].pose = base_waypoints[traffic_waypoint].pose

\* An extraction from the last index of the longest route back to index 1.
C5_Witness ==
  /\ Published /\ shaper = "decelerate" /\ RouteLen = MaxRouteLen
  /\ next_wp = RouteLen - 1 /\ traffic_waypoint = 1
  /\ len(lane) = 3

\* C6: with an active stop signal, a cycle in CRUISE whose stop distance is
\* below the minimum stopping distance stays in CRUISE and publishes the
\* lookahead window shaped by Accelerate; every other cycle ends in BRAKING
\* with a window shaped by Decelerate.
C6_ModeDecision ==
  [][ (step' = "loop" /\ has_base_waypoints /\ has_current_pose /\ StopIndexValid) =>
        LET stop_distance == distance(current_pose, base_waypoints[traffic_waypoint].pose)
        IN IF ~braking /\ BelowMinStoppingDistance(stop_distance, current_velocity)
           THEN /\ ~braking' /\ pub' /\ shaper' = "accelerate"
                /\ \A k \in 0..(LOOKAHEAD_WPS - 1) :
                      /\ k \in DOMAIN lane'
                      /\ lane'[k].pose = base_waypoints[(next_wp' + k) % RouteLen].pose
           ELSE /\ braking' /\ pub' /\ shaper' = "decelerate" ]_vars

\* The cycle at speed 10, 10 away from the stop point, that keeps cruising.
C6_Witness ==
  /\ Published /\ ~braking /\ StopIndexValid /\ shaper = "accelerate"
  /\ current_velocity = 10
  /\ distance(current_pose, base_waypoints[traffic_waypoint].pose) = 10

\* C7: a window published in BRAKING for a stop index in [0, N-1] runs from
\* next_wp to the stop index along the route, wrapping when the stop index
\* is below next_wp, with 1 to N points and no route point twice.
C7_BrakingWindowRange ==
  (Published /\ braking /\ StopIndexValid) =>
     /\ 1 <= len(lane) /\ len(lane) <= RouteLen
     /\ \A k \in DOMAIN lane : FollowsRoute(lane, k)
     /\ lane[len(lane) - 1].pose = base_waypoints[traffic_waypoint].pose
     /\ \A j, k \in DOMAIN lane : lane[j].pose = lane[k].pose => j = k
     /\ traffic_waypoint < next_wp =>
          \E k \in DOMAIN lane :
             /\ k + 1 \in DOMAIN lane
             /\ lane[k].pose = base_waypoints[RouteLen - 1].pose
             /\ lane[k + 1].pose = base_waypoints[0].pose

\* A braking window that wraps, and one whose stop point is next_wp itself
\* are both reached; this is the wrapping one.
C7_Witness ==
  /\ Published /\ braking /\ StopIndexValid
  /\ traffic_waypoint < next_wp /\ len(lane) >= 3

\* C8: a cycle whose stop index is neither -1 nor in [0, N-1] publishes
\* nothing, leaves the mode alone and does not end the loop.
C8_BadStopIndexRejected ==
  [][ (/\ step' = "loop" /\ has_base_waypoints /\ has_current_pose
       /\ RouteLen >= 2 /\ traffic_waypoint \notin (-1)..(RouteLen - 1)) =>
        (~pub' /\ running' /\ braking' = braking) ]_vars

\* C9: a cycle with a route of fewer than 2 points publishes nothing, leaves
\* the mode and the acceleration origin alone and does not end the loop.
C9_ShortRouteRejected ==
  [][ (/\ step' = "loop" /\ has_base_waypoints /\ has_current_pose
       /\ RouteLen < 2) =>
        (/\ ~pub' /\ running'
         /\ braking' = braking
         /\ last_starting_point' = last_starting_point) ]_vars

\* C10: a cycle without route or pose publishes nothing and leaves the mode
\* and the acceleration origin alone, and the loop goes on; a cycle that
\* finds both, the first one after they arrive included, publishes a window.
C10_SkipUntilRouteAndPose ==
  [][ step' = "loop" =>
        IF ~(has_base_waypoints /\ has_current_pose)
        THEN /\ ~pub' /\ running'
             /\ braking' = braking
             /\ last_starting_point' = last_starting_point
        ELSE pub' ]_vars

C16_ShapingIdempotent ==
  Published =>
     /\ shaper = "accelerate" =>
          accelerate(lane, accelerate_start(current_velocity, current_pose,
                                            last_starting_point)) = lane
     /\ shaper = "decelerate" => decelerate(lane) = lane

\* A Decelerate output whose ramp binds at a point with a speed above 0.
C16_Witness ==
  /\ Published /\ shaper = "decelerate" /\ len(lane) >= 3
  /\ \E k \in DOMAIN lane : 0 < lane[k].twist /\ lane[k].twist < NominalAt(lane[k].pose)

\* C18: the acceleration origin changes only in a cycle that applies
\* Accelerate with velocity <= 0.0001, where it becomes the current pose
\* position; every such cycle sets it so; no step makes it absent again.
C18_OriginOnlyAtStandstill ==
  [][ /\ last_starting_point' # last_starting_point =>
           /\ step' = "loop" /\ shaper' = "accelerate"
           /\ current_velocity <= 0
           /\ last_starting_point' = current_pose
      /\ (step' = "loop" /\ shaper' = "accelerate" /\ current_velocity <= 0) =>
           last_starting_point' = current_pose
      /\ last_starting_point # None => last_starting_point' # None ]_vars

\* A vehicle standing in BRAKING mode away from its origin: the braking
\* cycle at velocity 0 has not moved the origin.
C18_Witness ==
  /\ Published /\ braking /\ current_velocity = 0
  /\ last_starting_point # None
  /\ last_starting_point # current_pose

\* Squared Euclidean distance from the pose to route point i.
Dist2(i) ==
  LET p == base_waypoints[i].pose
  IN (current_pose[1] - p[1]) * (current_pose[1] - p[1])
     + (current_pose[2] - p[2]) * (current_pose[2] - p[2])
     + (current_pose[3] - p[3]) * (current_pose[3] - p[3])

\* The first route index at minimum distance from the pose.
FirstClosest ==
  CHOOSE c \in DOMAIN base_waypoints :
     \A i \in DOMAIN base_waypoints :
        Dist2(c) < Dist2(i) \/ (Dist2(c) = Dist2(i) /\ c <= i)

RoutePointsDistinct ==
  \A i, j \in DOMAIN base_waypoints :
     base_waypoints[i].pose = base_waypoints[j].pose => i = j

\* C14: on a route of N >= 2 distinct points get_next_waypoint returns an
\* index of the route; for a pose at route point i it returns (i + 1) mod N;
\* in general (c + 1) mod N if (pose - wp_c).(wp_c+1 - wp_c) >= 0 for the
\* closest point c, and c otherwise.
C14_NextIndexAhead ==
  (cycle.pc = "next" /\ RouteLen >= 2 /\ RoutePointsDistinct) =>
     /\ next_wp \in 0..(RouteLen - 1)
     /\ \A i \in DOMAIN base_waypoints :
           current_pose = base_waypoints[i].pose => next_wp = (i + 1) % RouteLen
     /\ LET c == FirstClosest
            wp0 == base_waypoints[c].pose
            wp1 == base_waypoints[(c + 1) % RouteLen].pose
            dot == (current_pose[1] - wp0[1]) * (wp1[1] - wp0[1])
                   + (current_pose[2] - wp0[2]) * (wp1[2] - wp0[2])
        IN next_wp = IF dot >= 0 THEN (c + 1) % RouteLen ELSE c

\* The pose is at the last point of a route of three: the answer wraps to 0.
C14_Witness ==
  /\ cycle.pc = "next" /\ RouteLen = 3 /\ RoutePointsDistinct
  /\ current_pose = base_waypoints[2].pose
  /\ next_wp = 0

\* C17: on a non-empty route get_closest_waypoint returns an index at
\* minimum distance from the pose, the smallest such index.
C17_ClosestFirstMinimum ==
  cycle.pc \in {"closest", "next"} =>
     /\ cycle.closest_wp \in DOMAIN base_waypoints
     /\ \A i \in DOMAIN base_waypoints :
           /\ Dist2(cycle.closest_wp) <= Dist2(i)
           /\ Dist2(cycle.closest_wp) = Dist2(i) => cycle.closest_wp <= i

\* Two points of the route are equally close and the scan kept the first.
C17_Witness ==
  /\ cycle.pc = "closest" /\ RouteLen = 3
  /\ cycle.closest_wp = 1
  /\ Dist2(1) = Dist2(2) /\ Dist2(1) < Dist2(0)
  /\ base_waypoints[1].pose # base_waypoints[2].pose

\* C12: when every stop index was valid for the route stored as it was
\* sent, a cycle on a non-empty route reads a stop index that is -1 or in
\* [0, N-1], computes next_wp in [0, N-1] and raises no IndexError.
C12_IndicesWithinRoute ==
  [][ (/\ step' = "loop" /\ has_base_waypoints /\ has_current_pose
       /\ RouteLen >= 1) =>
        /\ traffic_waypoint \in (-1)..(RouteLen - 1)
        /\ next_wp' \in 0..(RouteLen - 1)
        /\ running' ]_vars

\* The stop signal is the one of the too-close cycle on record.
SameStopSignal ==
  traffic_waypoint # -1 /\ too_close_cycle.traffic_wp = traffic_waypoint

\* The step is a cycle that ends in CRUISE with the lookahead window shaped
\* by Accelerate.
KeepsCruising ==
  /\ ~braking' /\ pub' /\ shaper' = "accelerate"
  /\ \A k \in 0..(LOOKAHEAD_WPS - 1) :
        /\ k \in DOMAIN lane'
        /\ lane'[k].pose = base_waypoints[(next_wp' + k) % RouteLen].pose

\* C15 as stated: after a too-close cycle every later cycle with the same
\* stop signal keeps cruising.
C15_CruisesEverAfter ==
  [][ (step' = "loop" /\ SameStopSignal) => KeepsCruising ]_vars

\* C15 as amended: the test is made again in every cycle.  A later cycle in
\* CRUISE with the same stop signal keeps cruising when its stop distance is
\* not larger and its forward speed not lower than in the too-close cycle;
\* a later cycle whose stop distance is not below its own minimum stopping
\* distance ends in BRAKING with a Decelerate window.
C15_CruisesWhileStillTooClose ==
  [][ (step' = "loop" /\ SameStopSignal) =>
        LET stop_distance == distance(current_pose, base_waypoints[traffic_waypoint].pose)
        IN /\ (/\ ~braking
               /\ stop_distance <= too_close_cycle.tl_dist
               /\ current_velocity >= too_close_cycle.velocity) => KeepsCruising
           /\ ~BelowMinStoppingDistance(stop_distance, current_velocity) =>
                 (braking' /\ pub' /\ shaper' = "decelerate") ]_vars

\* A later cycle, nearer to the stop point than the too-close cycle on
\* record, that kept cruising.
C15_Witness ==
  /\ Published /\ ~braking /\ shaper = "accelerate" /\ SameStopSignal
  /\ distance(current_pose, base_waypoints[traffic_waypoint].pose)
        < too_close_cycle.tl_dist

\* C11: in a cycle shaped by Accelerate, the velocity Accelerate tests is
\* the velocity min_stopping_dist was computed from, and an origin it
\* records is the pose next_wp and tl_dist were computed from.
C11_OneSnapshotPerCycle ==
  [][ (cycle.pc = "shape" /\ step' = "loop" /\ shaper' = "accelerate") =>
        /\ cycle'.acc_velocity = cycle.velocity
        /\ (cycle'.acc_velocity <= 0 => last_starting_point' = cycle.pose) ]_vars

====
